---------------------------- MODULE Spec2Model ----------------------------
(***************************************************************************)
(* greek-syllables (src/lib.rs): the grapheme classifier `categorise` and  *)
(* the backward-scanning syllable splitter `syllables`.                    *)
(*                                                                         *)
(* Text is modelled as Rust sees it.  A word is a sequence of Unicode      *)
(* scalar values (a `str`), offsets are byte offsets into its UTF-8        *)
(* encoding, a grapheme is the sequence of scalar values of one extended   *)
(* grapheme cluster, and a syllable is a slice word[lo..hi] kept as its    *)
(* pair of byte offsets.  One step of the state machine is one iteration   *)
(* of the `for` loop of `syllables`; the last step is the code after it.   *)
(***************************************************************************)
EXTENDS Integers, Sequences, FiniteSets

VARIABLES
    word,        \* the argument of syllables(): a sequence of scalar values
    graphemes,   \* what grapheme_indices(word, true) yields: (offset, grapheme) pairs, in text order
    k,           \* how many of them .rev() has not yielded yet: the next one is graphemes[k]
    syllables,   \* the Vec of slices, each [lo, hi) in bytes
    state,       \* Syllable::{Ending, Starting, Restarting}
    end,         \* byte offset where the pending span ends
    last,        \* byte offset of the grapheme of the previous iteration
    prev,        \* canonical letter of the previous iteration
    prev_prev,   \* canonical letter recorded by the joinable-cluster arm
    branch,      \* the arm of the loop body taken by the latest iteration
    pc           \* "scan" in the loop, "done" after return, "panicked" after a slice panic

vars == <<word, graphemes, k, syllables, state, end, last, prev, prev_prev, branch, pc>>

---------------------------------------------------------------------------
(* The canonical letters: the `char` values the classifier returns and the *)
(* rule tables compare.                                                    *)
alpha == 945
beta == 946
gamma == 947
delta == 948
epsilon == 949
zeta == 950
eta == 951
theta == 952
iota == 953
kappa == 954
lambda == 955
mu == 956
nu == 957
xi == 958
omicron == 959
pi == 960
rho == 961
sigma == 963
tau == 964
upsilon == 965
phi == 966
chi == 967
psi == 968
omega == 969

\* `0 as char`: the canonical letter of the sentinel descriptor.
NONE == 0

\* The tuple categorise returns:
\* (canonical letter, transliteration, vowel, breathing, accent, diaeresis).
Desc(c, t, vowel, breathing, accent, diaeresis) ==
    [c |-> c, t |-> t, vowel |-> vowel, breathing |-> breathing,
     accent |-> accent, diaeresis |-> diaeresis]

\* fn categorise(c: &str): a match on the literal text of one grapheme.  Each
\* arm lists its patterns as the scalar values of the string literals of the
\* source line named above it.
categorise(g) ==
    \* line 165: U+0391 | U+03B1
    CASE g \in {<<913>>, <<945>>}
           -> Desc(alpha, "a", TRUE, "None", "Unaccented", FALSE)
    \* line 168: U+0395 | U+03B5
      [] g \in {<<917>>, <<949>>}
           -> Desc(epsilon, "e", TRUE, "None", "Unaccented", FALSE)
    \* line 171: U+0397 | U+03B7
      [] g \in {<<919>>, <<951>>}
           -> Desc(eta, "e", TRUE, "None", "Unaccented", FALSE)
    \* line 174: U+0399 | U+03B9
      [] g \in {<<921>>, <<953>>}
           -> Desc(iota, "i", TRUE, "None", "Unaccented", FALSE)
    \* line 177: U+039F | U+03BF
      [] g \in {<<927>>, <<959>>}
           -> Desc(omicron, "o", TRUE, "None", "Unaccented", FALSE)
    \* line 180: U+03A5 | U+03C5
      [] g \in {<<933>>, <<965>>}
           -> Desc(upsilon, "u", TRUE, "None", "Unaccented", FALSE)
    \* line 183: U+03A9 | U+03C9
      [] g \in {<<937>>, <<969>>}
           -> Desc(omega, "o", TRUE, "None", "Unaccented", FALSE)
    \* line 186: U+03AB | U+03CB
      [] g \in {<<939>>, <<971>>}
           -> Desc(upsilon, "U+03C5", TRUE, "None", "Unaccented", TRUE)
    \* line 189: U+03AA | U+03CA
      [] g \in {<<938>>, <<970>>}
           -> Desc(iota, "i", TRUE, "None", "Unaccented", TRUE)
    \* line 192: U+1FB6
      [] g \in {<<8118>>}
           -> Desc(8118, "a", TRUE, "None", "Circumflex", FALSE)
    \* line 195: U+1FC6
      [] g \in {<<8134>>}
           -> Desc(8134, "e", TRUE, "None", "Circumflex", FALSE)
    \* line 198: U+1FD6
      [] g \in {<<8150>>}
           -> Desc(8150, "i", TRUE, "None", "Circumflex", FALSE)
    \* line 201: U+1FF6
      [] g \in {<<8182>>}
           -> Desc(8182, "o", TRUE, "None", "Circumflex", FALSE)
    \* line 204: U+0386 | U+0391 U+0301 | U+03AC | U+03B1 U+0301
      [] g \in {<<902>>, <<913, 769>>, <<940>>, <<945, 769>>}
           -> Desc(alpha, "a", TRUE, "Smooth", "Acute", FALSE)
    \* line 207: U+0388 | U+0395 U+0301 | U+03AD | U+03B5 U+0301
      [] g \in {<<904>>, <<917, 769>>, <<941>>, <<949, 769>>}
           -> Desc(epsilon, "e", TRUE, "Smooth", "Acute", FALSE)
    \* line 210: U+0389 | U+0397 U+0301 | U+03AE | U+03B7 U+0301
      [] g \in {<<905>>, <<919, 769>>, <<942>>, <<951, 769>>}
           -> Desc(eta, "e", TRUE, "Smooth", "Acute", FALSE)
    \* line 213: U+038A | U+0399 U+0301 | U+03AF | U+03B9 U+0301
      [] g \in {<<906>>, <<921, 769>>, <<943>>, <<953, 769>>}
           -> Desc(iota, "i", TRUE, "Smooth", "Acute", FALSE)
    \* line 216: U+038C | U+039F U+0301 | U+03CC | U+03BF U+0301
      [] g \in {<<908>>, <<927, 769>>, <<972>>, <<959, 769>>}
           -> Desc(omicron, "o", TRUE, "Smooth", "Acute", FALSE)
    \* line 219: U+038E | U+03A5 U+0301 | U+03CD | U+03C5 U+0301
      [] g \in {<<910>>, <<933, 769>>, <<973>>, <<965, 769>>}
           -> Desc(upsilon, "u", TRUE, "Smooth", "Acute", FALSE)
    \* line 222: U+038F | U+03A9 U+0301 | U+03CE | U+03C9 U+0301
      [] g \in {<<911>>, <<937, 769>>, <<974>>, <<969, 769>>}
           -> Desc(omega, "o", TRUE, "Smooth", "Acute", FALSE)
    \* line 225: U+1FBA | U+0391 U+0300 | U+1F70 | U+03B1 U+0300
      [] g \in {<<8122>>, <<913, 768>>, <<8048>>, <<945, 768>>}
           -> Desc(alpha, "a", TRUE, "Smooth", "Grave", FALSE)
    \* line 228: U+1FC8 | U+0395 U+0300 | U+1F72 | U+03B5 U+0300
      [] g \in {<<8136>>, <<917, 768>>, <<8050>>, <<949, 768>>}
           -> Desc(epsilon, "e", TRUE, "Smooth", "Grave", FALSE)
    \* line 231: U+1FCA | U+0397 U+0300 | U+1F74 | U+03B7 U+0300
      [] g \in {<<8138>>, <<919, 768>>, <<8052>>, <<951, 768>>}
           -> Desc(eta, "e", TRUE, "Smooth", "Grave", FALSE)
    \* line 234: U+1FDA | U+0399 U+0300 | U+1F76 | U+03B9 U+0300
      [] g \in {<<8154>>, <<921, 768>>, <<8054>>, <<953, 768>>}
           -> Desc(iota, "i", TRUE, "Smooth", "Grave", FALSE)
    \* line 237: U+1FF8 | U+039F U+0300 | U+1F78 | U+03BF U+0300
      [] g \in {<<8184>>, <<927, 768>>, <<8056>>, <<959, 768>>}
           -> Desc(omicron, "o", TRUE, "Smooth", "Grave", FALSE)
    \* line 240: U+1FEA | U+03A5 U+0300 | U+1F7A | U+03C5 U+0300
      [] g \in {<<8170>>, <<933, 768>>, <<8058>>, <<965, 768>>}
           -> Desc(upsilon, "u", TRUE, "Smooth", "Grave", FALSE)
    \* line 243: U+1FFA | U+03A9 U+0300 | U+1F7C | U+03C9 U+0300
      [] g \in {<<8186>>, <<937, 768>>, <<8060>>, <<969, 768>>}
           -> Desc(omega, "o", TRUE, "Smooth", "Grave", FALSE)
    \* line 246: U+1F08 | U+0391 U+0313 | U+1F00 | U+03B1 U+0313
      [] g \in {<<7944>>, <<913, 787>>, <<7936>>, <<945, 787>>}
           -> Desc(alpha, "a", TRUE, "Smooth", "Unaccented", FALSE)
    \* line 249: U+1F18 | U+0395 U+0313 | U+1F10 | U+03B5 U+0313
      [] g \in {<<7960>>, <<917, 787>>, <<7952>>, <<949, 787>>}
           -> Desc(epsilon, "e", TRUE, "Smooth", "Unaccented", FALSE)
    \* line 252: U+1F28 | U+0397 U+0313 | U+1F20 | U+03B7 U+0313
      [] g \in {<<7976>>, <<919, 787>>, <<7968>>, <<951, 787>>}
           -> Desc(eta, "e", TRUE, "Smooth", "Unaccented", FALSE)
    \* line 255: U+1F38 | U+0399 U+0313 | U+1F30 | U+03B9 U+0313
      [] g \in {<<7992>>, <<921, 787>>, <<7984>>, <<953, 787>>}
           -> Desc(iota, "i", TRUE, "Smooth", "Unaccented", FALSE)
    \* line 258: U+1F48 | U+039F U+0313 | U+1F40 | U+03BF U+0313
      [] g \in {<<8008>>, <<927, 787>>, <<8000>>, <<959, 787>>}
           -> Desc(omicron, "o", TRUE, "Smooth", "Unaccented", FALSE)
    \* line 261: U+03A5 U+0313 | U+1F50 | U+03C5 U+0313
      [] g \in {<<933, 787>>, <<8016>>, <<965, 787>>}
           -> Desc(upsilon, "u", TRUE, "Smooth", "Unaccented", FALSE)
    \* line 264: U+1F68 | U+03A9 U+0313 | U+1F60 | U+03C9 U+0313
      [] g \in {<<8040>>, <<937, 787>>, <<8032>>, <<969, 787>>}
           -> Desc(omega, "o", TRUE, "Smooth", "Unaccented", FALSE)
    \* line 267: U+1F09 | U+1F01
      [] g \in {<<7945>>, <<7937>>}
           -> Desc(alpha, "a", TRUE, "Rough", "Unaccented", FALSE)
    \* line 270: U+1F19 | U+1F11
      [] g \in {<<7961>>, <<7953>>}
           -> Desc(epsilon, "e", TRUE, "Rough", "Unaccented", FALSE)
    \* line 273: U+1F29 | U+1F21
      [] g \in {<<7977>>, <<7969>>}
           -> Desc(eta, "e", TRUE, "Rough", "Unaccented", FALSE)
    \* line 276: U+1F39 | U+1F31
      [] g \in {<<7993>>, <<7985>>}
           -> Desc(iota, "i", TRUE, "Rough", "Unaccented", FALSE)
    \* line 279: U+1F49 | U+1F41
      [] g \in {<<8009>>, <<8001>>}
           -> Desc(omicron, "i", TRUE, "Rough", "Unaccented", FALSE)
    \* line 282: U+1F59 | U+1F51
      [] g \in {<<8025>>, <<8017>>}
           -> Desc(upsilon, "u", TRUE, "Rough", "Unaccented", FALSE)
    \* line 285: U+1F69 | U+1F61
      [] g \in {<<8041>>, <<8033>>}
           -> Desc(omega, "o", TRUE, "Rough", "Unaccented", FALSE)
    \* line 288: U+1F0C | U+1F04
      [] g \in {<<7948>>, <<7940>>}
           -> Desc(alpha, "a", TRUE, "Smooth", "Acute", FALSE)
    \* line 291: U+1F1C | U+1F14 | U+03B5 U+0313 U+0301 | U+03B5 U+0301 U+0313 | U+0395 U+0313 U+0301 | U+0395 U+0301 U+0313
      [] g \in {<<7964>>, <<7956>>, <<949, 787, 769>>, <<949, 769, 787>>, <<917, 787, 769>>, <<917, 769, 787>>}
           -> Desc(epsilon, "e", TRUE, "Smooth", "Acute", FALSE)
    \* line 294: U+1F2C | U+1F24 | U+03B7 U+0313 U+0301 | U+03B7 U+0301 U+0313 | U+0397 U+0313 U+0301 | U+0397 U+0301 U+0313
      [] g \in {<<7980>>, <<7972>>, <<951, 787, 769>>, <<951, 769, 787>>, <<919, 787, 769>>, <<919, 769, 787>>}
           -> Desc(eta, "e", TRUE, "Smooth", "Acute", FALSE)
    \* line 297: U+1F3C | U+1F34 | U+03B9 U+0313 U+0301 | U+03B9 U+0301 U+0313 | U+0399 U+0313 U+0301 | U+0399 U+0301 U+0313
      [] g \in {<<7996>>, <<7988>>, <<953, 787, 769>>, <<953, 769, 787>>, <<921, 787, 769>>, <<921, 769, 787>>}
           -> Desc(iota, "i", TRUE, "Smooth", "Acute", FALSE)
    \* line 300: U+1F4C | U+1F44 | U+03BF U+0313 U+0301 | U+03BF U+0301 U+0313 | U+039F U+0313 U+0301 | U+039F U+0301 U+0313
      [] g \in {<<8012>>, <<8004>>, <<959, 787, 769>>, <<959, 769, 787>>, <<927, 787, 769>>, <<927, 769, 787>>}
           -> Desc(omicron, "o", TRUE, "Smooth", "Acute", FALSE)
    \* line 303: U+1F54 | U+03C5 U+0313 U+0301 | U+03C5 U+0301 U+0313
      [] g \in {<<8020>>, <<965, 787, 769>>, <<965, 769, 787>>}
           -> Desc(upsilon, "u", TRUE, "Smooth", "Acute", FALSE)
    \* line 306: U+1F6C | U+1F64 | U+03A9 U+0313 U+0301 | U+03A9 U+0301 U+0313 | U+03C9 U+0313 U+0301 | U+03C9 U+0301 U+0313
      [] g \in {<<8044>>, <<8036>>, <<937, 787, 769>>, <<937, 769, 787>>, <<969, 787, 769>>, <<969, 769, 787>>}
           -> Desc(omega, "o", TRUE, "Smooth", "Acute", FALSE)
    \* line 309: U+1F05 | U+03B1 U+0301 U+0314 | U+03B1 U+0314 U+0301 | U+1F0D | U+0391 U+0301 U+0314 | U+0391 U+0314 U+0301
      [] g \in {<<7941>>, <<945, 769, 788>>, <<945, 788, 769>>, <<7949>>, <<913, 769, 788>>, <<913, 788, 769>>}
           -> Desc(alpha, "a", TRUE, "Rough", "Acute", FALSE)
    \* line 312: U+1F15 | U+03B5 U+0301 U+0314 | U+03B5 U+0314 U+0301 | U+1F1D | U+0395 U+0301 U+0314 | U+0395 U+0314 U+0301
      [] g \in {<<7957>>, <<949, 769, 788>>, <<949, 788, 769>>, <<7965>>, <<917, 769, 788>>, <<917, 788, 769>>}
           -> Desc(epsilon, "e", TRUE, "Rough", "Acute", FALSE)
    \* line 315: U+1F25 | U+03B7 U+0301 U+0314 | U+03B7 U+0314 U+0301 | U+1F2D | U+0397 U+0301 U+0314 | U+0397 U+0314 U+0301
      [] g \in {<<7973>>, <<951, 769, 788>>, <<951, 788, 769>>, <<7981>>, <<919, 769, 788>>, <<919, 788, 769>>}
           -> Desc(eta, "e", TRUE, "Rough", "Acute", FALSE)
    \* line 318: U+1F35 | U+03B9 U+0301 U+0314 | U+03B9 U+0314 U+0301 | U+1F3D | U+0399 U+0301 U+0314 | U+0399 U+0314 U+0301
      [] g \in {<<7989>>, <<953, 769, 788>>, <<953, 788, 769>>, <<7997>>, <<921, 769, 788>>, <<921, 788, 769>>}
           -> Desc(iota, "i", TRUE, "Rough", "Acute", FALSE)
    \* line 321: U+1F45 | U+03BF U+0301 U+0314 | U+03BF U+0314 U+0301 | U+1F4D | U+039F U+0301 U+0314 | U+039F U+0314 U+0301
      [] g \in {<<8005>>, <<959, 769, 788>>, <<959, 788, 769>>, <<8013>>, <<927, 769, 788>>, <<927, 788, 769>>}
           -> Desc(omicron, "o", TRUE, "Rough", "Acute", FALSE)
    \* line 324: U+1F55 | U+03C5 U+0301 U+0314 | U+03C5 U+0314 U+0301 | U+1F5D | U+03A5 U+0301 U+0314 | U+03A5 U+0314 U+0301
      [] g \in {<<8021>>, <<965, 769, 788>>, <<965, 788, 769>>, <<8029>>, <<933, 769, 788>>, <<933, 788, 769>>}
           -> Desc(upsilon, "u", TRUE, "Rough", "Acute", FALSE)
    \* line 327: U+1F65 | U+03C9 U+0301 U+0314 | U+03C9 U+0314 U+0301 | U+1F6D | U+03A9 U+0301 U+0314 | U+03A9 U+0314 U+0301
      [] g \in {<<8037>>, <<969, 769, 788>>, <<969, 788, 769>>, <<8045>>, <<937, 769, 788>>, <<937, 788, 769>>}
           -> Desc(omega, "o", TRUE, "Rough", "Acute", FALSE)
    \* line 330: U+1F0A | U+1F02
      [] g \in {<<7946>>, <<7938>>}
           -> Desc(alpha, "a", TRUE, "Smooth", "Grave", FALSE)
    \* line 333: U+1F1A | U+1F12
      [] g \in {<<7962>>, <<7954>>}
           -> Desc(epsilon, "e", TRUE, "Smooth", "Grave", FALSE)
    \* line 336: U+1F2A | U+1F22
      [] g \in {<<7978>>, <<7970>>}
           -> Desc(eta, "e", TRUE, "Smooth", "Grave", FALSE)
    \* line 339: U+1F3A | U+1F32
      [] g \in {<<7994>>, <<7986>>}
           -> Desc(iota, "i", TRUE, "Smooth", "Grave", FALSE)
    \* line 342: U+1F4A | U+1F42
      [] g \in {<<8010>>, <<8002>>}
           -> Desc(omicron, "o", TRUE, "Smooth", "Grave", FALSE)
    \* line 345: U+1F52
      [] g \in {<<8018>>}
           -> Desc(upsilon, "u", TRUE, "Smooth", "Grave", FALSE)
    \* line 348: U+1F6A | U+1F62
      [] g \in {<<8042>>, <<8034>>}
           -> Desc(omega, "o", TRUE, "Smooth", "Grave", FALSE)
    \* line 351: U+1F0B | U+1F03
      [] g \in {<<7947>>, <<7939>>}
           -> Desc(alpha, "a", TRUE, "Rough", "Grave", FALSE)
    \* line 354: U+1F1B | U+1F13
      [] g \in {<<7963>>, <<7955>>}
           -> Desc(epsilon, "e", TRUE, "Rough", "Grave", FALSE)
    \* line 357: U+1F2B | U+1F23
      [] g \in {<<7979>>, <<7971>>}
           -> Desc(eta, "e", TRUE, "Rough", "Grave", FALSE)
    \* line 360: U+1F3B | U+1F33
      [] g \in {<<7995>>, <<7987>>}
           -> Desc(iota, "i", TRUE, "Rough", "Grave", FALSE)
    \* line 363: U+1F4B | U+1F43
      [] g \in {<<8011>>, <<8003>>}
           -> Desc(omicron, "o", TRUE, "Rough", "Grave", FALSE)
    \* line 366: U+1F5B | U+1F53
      [] g \in {<<8027>>, <<8019>>}
           -> Desc(upsilon, "u", TRUE, "Rough", "Grave", FALSE)
    \* line 369: U+1F6B | U+1F63
      [] g \in {<<8043>>, <<8035>>}
           -> Desc(omega, "o", TRUE, "Rough", "Grave", FALSE)
    \* line 372: U+0392 | U+03B2
      [] g \in {<<914>>, <<946>>}
           -> Desc(beta, "b", FALSE, "None", "Unaccented", FALSE)
    \* line 375: U+0393 | U+03B3
      [] g \in {<<915>>, <<947>>}
           -> Desc(gamma, "g", FALSE, "None", "Unaccented", FALSE)
    \* line 378: U+0394 | U+03B4
      [] g \in {<<916>>, <<948>>}
           -> Desc(delta, "d", FALSE, "None", "Unaccented", FALSE)
    \* line 381: U+0396 | U+03B6
      [] g \in {<<918>>, <<950>>}
           -> Desc(zeta, "z", FALSE, "None", "Unaccented", FALSE)
    \* line 384: U+0398 | U+03B8
      [] g \in {<<920>>, <<952>>}
           -> Desc(theta, "th", FALSE, "None", "Unaccented", FALSE)
    \* line 387: U+039A | U+03BA
      [] g \in {<<922>>, <<954>>}
           -> Desc(kappa, "k", FALSE, "None", "Unaccented", FALSE)
    \* line 390: U+039B | U+03BB
      [] g \in {<<923>>, <<955>>}
           -> Desc(lambda, "l", FALSE, "None", "Unaccented", FALSE)
    \* line 393: U+039C | U+03BC
      [] g \in {<<924>>, <<956>>}
           -> Desc(mu, "m", FALSE, "None", "Unaccented", FALSE)
    \* line 396: U+039D | U+03BD
      [] g \in {<<925>>, <<957>>}
           -> Desc(nu, "n", FALSE, "None", "Unaccented", FALSE)
    \* line 399: U+039E | U+03BE
      [] g \in {<<926>>, <<958>>}
           -> Desc(xi, "x", FALSE, "None", "Unaccented", FALSE)
    \* line 402: U+03A0 | U+03C0
      [] g \in {<<928>>, <<960>>}
           -> Desc(pi, "p", FALSE, "None", "Unaccented", FALSE)
    \* line 405: U+03A1 | U+03C1
      [] g \in {<<929>>, <<961>>}
           -> Desc(rho, "r", FALSE, "None", "Unaccented", FALSE)
    \* line 408: U+03A3 | U+03C3 | U+03C2
      [] g \in {<<931>>, <<963>>, <<962>>}
           -> Desc(sigma, "s", FALSE, "None", "Unaccented", FALSE)
    \* line 411: U+03A4 | U+03C4
      [] g \in {<<932>>, <<964>>}
           -> Desc(tau, "t", FALSE, "None", "Unaccented", FALSE)
    \* line 414: U+03A6 | U+03C6
      [] g \in {<<934>>, <<966>>}
           -> Desc(phi, "f", FALSE, "None", "Unaccented", FALSE)
    \* line 417: U+03A7 | U+03C7
      [] g \in {<<935>>, <<967>>}
           -> Desc(chi, "ch", FALSE, "None", "Unaccented", FALSE)
    \* line 420: U+03A8 | U+03C8
      [] g \in {<<936>>, <<968>>}
           -> Desc(psi, "ps", FALSE, "None", "Unaccented", FALSE)
    \* line 423: every other grapheme
      [] OTHER -> Desc(NONE, "", FALSE, "None", "Unaccented", FALSE)

\* is_dipthong without its last arm, ('\u03b7', '\u03c5').
is_dipthong_seven(a, b) ==
    <<a, b>> \in { <<alpha, iota>>, <<epsilon, iota>>, <<omicron, iota>>,
                   <<upsilon, iota>>, <<alpha, upsilon>>, <<epsilon, upsilon>>,
                   <<omicron, upsilon>> }

\* fn is_dipthong(a: char, b: char)
is_dipthong(a, b) ==
    <<a, b>> \in { <<alpha, iota>>, <<epsilon, iota>>, <<omicron, iota>>,
                   <<upsilon, iota>>, <<alpha, upsilon>>, <<epsilon, upsilon>>,
                   <<omicron, upsilon>>, <<eta, upsilon>> }

\* fn joinable_consonant(a: char, b: char)
joinable_consonant(a, b) ==
    <<a, b>> \in { <<beta, delta>>, <<beta, lambda>>, <<beta, rho>>,
                   <<gamma, lambda>>, <<gamma, nu>>, <<gamma, rho>>,
                   <<delta, rho>>,
                   <<theta, lambda>>, <<theta, nu>>, <<theta, rho>>,
                   <<kappa, lambda>>, <<kappa, nu>>, <<kappa, rho>>, <<kappa, tau>>,
                   <<mu, nu>>,
                   <<pi, lambda>>, <<pi, nu>>, <<pi, rho>>, <<pi, tau>>,
                   <<sigma, beta>>, <<sigma, theta>>, <<sigma, kappa>>, <<sigma, mu>>,
                   <<sigma, pi>>, <<sigma, tau>>, <<sigma, phi>>, <<sigma, chi>>,
                   <<tau, rho>>,
                   <<phi, theta>>, <<phi, lambda>>, <<phi, rho>>,
                   <<chi, lambda>>, <<chi, rho>> }

---------------------------------------------------------------------------
(* Strings, byte offsets and slices.                                       *)

\* Bytes of one scalar value in UTF-8; word.len() and every index count bytes.
Utf8Len(cp) ==
    IF cp < 128 THEN 1 ELSE IF cp < 2048 THEN 2 ELSE IF cp < 65536 THEN 3 ELSE 4

RECURSIVE ByteOffset(_, _)
\* Byte offset of the p-th scalar value of w (p = Len(w) + 1: the end of w).
ByteOffset(w, p) ==
    IF p = 1 THEN 0 ELSE ByteOffset(w, p - 1) + Utf8Len(w[p - 1])

\* word.len()
StrLen(w) == ByteOffset(w, Len(w) + 1)

\* The offsets at which a str may be sliced.
IsCharBoundary(w, b) == \E p \in 1..(Len(w) + 1) : ByteOffset(w, p) = b

\* &word[a..b] panics unless a <= b <= len and both lie on char boundaries.
SliceOk(w, a, b) ==
    /\ a <= b
    /\ b <= StrLen(w)
    /\ IsCharBoundary(w, a)
    /\ IsCharBoundary(w, b)

\* The text of &word[a..b].
Slice(w, a, b) ==
    LET P == {p \in 1..Len(w) : ByteOffset(w, p) >= a /\ ByteOffset(w, p) < b}
    IN  IF P = {} THEN <<>>
        ELSE SubSeq(w, CHOOSE p \in P : \A q \in P : p <= q,
                       CHOOSE p \in P : \A q \in P : p >= q)

\* Grapheme_Extend scalar values met here: the combining diacritical marks
\* U+0300..U+036F.  An extended grapheme cluster never breaks before one.
IsExtend(cp) == cp \in 768..879

\* UnicodeSegmentation::grapheme_indices(word, true): the (byte offset,
\* grapheme) pairs of w in text order.  A cluster starts at the first scalar
\* value and at every one that is not Grapheme_Extend.
GraphemeIndices(w) ==
    LET S == {p \in 1..Len(w) : p = 1 \/ ~IsExtend(w[p])}
        Nth(n) == CHOOSE p \in S : Cardinality({q \in S : q < p}) = n - 1
        Stop(n) == IF n = Cardinality(S) THEN Len(w) ELSE Nth(n + 1) - 1
    IN  [n \in 1..Cardinality(S) |->
            [i |-> ByteOffset(w, Nth(n)), g |-> SubSeq(w, Nth(n), Stop(n))]]

---------------------------------------------------------------------------
(* fn syllables(word): the loop body, one operator per arm.  Each returns  *)
(* what the arm pushes and assigns; `i` is the byte offset of the current  *)
(* grapheme and d its descriptor.                                          *)

Span(lo, hi) == [lo |-> lo, hi |-> hi]

Effect(push, st, e, pp, br) ==
    [push |-> push, state |-> st, end |-> e, prev_prev |-> pp, branch |-> br]

\* UnrecognisedArm without its `last = i`: the `continue` skips line 75, so
\* last keeps the offset of the grapheme to the right.
UnrecognisedArmKeepsLast(i, c) ==
    [push      |-> IF last = end
                   THEN <<Span(i, end)>>
                   ELSE IF last > i
                        THEN <<Span(last, end), Span(i, last)>>
                        ELSE <<Span(last, end)>>,
     state     |-> "Ending",
     end       |-> i,
     last      |-> last,
     prev      |-> c,
     prev_prev |-> prev_prev,
     branch    |-> "unrecognised"]

\* UnrecognisedArm without the test of a pending span: it always pushes
\* word[i..end].
UnrecognisedArmOnePush(i, c) ==
    [push      |-> <<Span(i, end)>>,
     state     |-> "Ending",
     end       |-> i,
     last      |-> i,
     prev      |-> c,
     prev_prev |-> prev_prev,
     branch    |-> "unrecognised"]

\* Lines 17-31: the grapheme is not recognised (c == 0 as char).  The arm
\* ends in `continue`, so it assigns end, last and prev itself.
UnrecognisedArm(i, c) ==
    [push      |-> IF last = end
                   THEN <<Span(i, end)>>
                   ELSE IF last > i
                        THEN <<Span(last, end), Span(i, last)>>
                        ELSE <<Span(last, end)>>,
     state     |-> "Ending",
     end       |-> i,
     last      |-> i,
     prev      |-> c,
     prev_prev |-> prev_prev,
     branch    |-> "unrecognised"]

\* Lines 33-42: Syllable::Ending.
EndingArm(i, d) ==
    IF d.vowel
    THEN IF d.diaeresis
         THEN Effect(<<Span(i, end)>>, "Starting", i, prev_prev, "ending_diaeresis")
         ELSE Effect(<<>>, "Starting", end, prev_prev, "ending_vowel")
    ELSE Effect(<<>>, "Ending", end, prev_prev, "ending_consonant")

\* Lines 43-53: Syllable::Starting.
StartingArm(i, d) ==
    IF is_dipthong(d.c, prev)
    THEN Effect(<<>>, "Starting", end, prev_prev, "starting_diphthong")
    ELSE IF d.vowel
         THEN Effect(<<Span(last, end)>>, "Starting", last, prev_prev, "starting_vowel")
         ELSE Effect(<<>>, "Restarting", end, prev_prev, "starting_consonant")

\* RestartingArm with the arguments of joinable_consonant exchanged.
RestartingArmSwapped(i, d) ==
    IF d.vowel
    THEN Effect(<<Span(last, end)>>, "Starting", last, prev_prev, "restarting_vowel")
    ELSE IF d.c = sigma /\ prev = tau /\ prev_prev = rho
         THEN Effect(<<Span(i, end)>>, "Ending", i, prev_prev, "restarting_rts")
         ELSE IF joinable_consonant(prev, d.c)
              THEN Effect(<<>>, "Restarting", end, prev, "restarting_join")
              ELSE Effect(<<Span(last, end)>>, "Ending", last, prev_prev, "restarting_cut")

\* Lines 54-72: Syllable::Restarting.
RestartingArm(i, d) ==
    IF d.vowel
    THEN Effect(<<Span(last, end)>>, "Starting", last, prev_prev, "restarting_vowel")
    ELSE IF d.c = sigma /\ prev = tau /\ prev_prev = rho
         THEN Effect(<<Span(i, end)>>, "Ending", i, prev_prev, "restarting_rts")
         ELSE IF joinable_consonant(d.c, prev)
              THEN Effect(<<>>, "Restarting", end, prev, "restarting_join")
              ELSE Effect(<<Span(last, end)>>, "Ending", last, prev_prev, "restarting_cut")

\* Lines 74-75, after the match: prev = c; last = i.
AfterMatch(eff, i, c) ==
    [push |-> eff.push, state |-> eff.state, end |-> eff.end, last |-> i,
     prev |-> c, prev_prev |-> eff.prev_prev, branch |-> eff.branch]

\* FinalPush testing last instead of end: last is 0 after any scan.
FinalPushTestsLast ==
    IF last # 0 THEN <<Span(0, end)>> ELSE <<>>

\* Lines 77-79, after the loop: the span left of the last cut.
FinalPush ==
    IF end # 0 THEN <<Span(0, end)>> ELSE <<>>

Reverse(s) == [n \in 1..Len(s) |-> s[Len(s) + 1 - n]]

AllSlicesOk(push) ==
    \A n \in DOMAIN push : SliceOk(word, push[n].lo, push[n].hi)

\* One iteration takes effect, or panics at a slice that is out of range.
Commit(eff) ==
    IF AllSlicesOk(eff.push)
    THEN /\ syllables' = syllables \o eff.push
         /\ state' = eff.state
         /\ end' = eff.end
         /\ last' = eff.last
         /\ prev' = eff.prev
         /\ prev_prev' = eff.prev_prev
         /\ branch' = eff.branch
         /\ k' = k - 1
         /\ pc' = "scan"
         /\ UNCHANGED <<word, graphemes>>
    ELSE /\ pc' = "panicked"
         /\ UNCHANGED <<word, graphemes, k, syllables, state, end, last, prev, prev_prev,
                        branch>>

\* The element the reversed iterator yields next.
Element == graphemes[k]

---------------------------------------------------------------------------
(* The state machine.                                                      *)

\* Lines 9-15: the locals of syllables() before the first iteration.
InitWith(W) ==
    /\ word \in W
    /\ graphemes = GraphemeIndices(word)
    /\ k = Len(graphemes)
    /\ syllables = <<>>
    /\ state = "Ending"
    /\ end = StrLen(word)
    /\ last = StrLen(word)
    /\ prev = NONE
    /\ prev_prev = NONE
    /\ branch = "none"
    /\ pc = "scan"

ScanUnrecognised ==
    /\ pc = "scan"
    /\ k > 0
    /\ LET d == categorise(Element.g)
       IN  /\ d.c = NONE
           /\ Commit(UnrecognisedArm(Element.i, d.c))

ScanEnding ==
    /\ pc = "scan"
    /\ k > 0
    /\ state = "Ending"
    /\ LET d == categorise(Element.g)
       IN  /\ d.c # NONE
           /\ Commit(AfterMatch(EndingArm(Element.i, d), Element.i, d.c))

ScanStarting ==
    /\ pc = "scan"
    /\ k > 0
    /\ state = "Starting"
    /\ LET d == categorise(Element.g)
       IN  /\ d.c # NONE
           /\ Commit(AfterMatch(StartingArm(Element.i, d), Element.i, d.c))

ScanRestarting ==
    /\ pc = "scan"
    /\ k > 0
    /\ state = "Restarting"
    /\ LET d == categorise(Element.g)
       IN  /\ d.c # NONE
           /\ Commit(AfterMatch(RestartingArm(Element.i, d), Element.i, d.c))

\* Lines 77-82: the final push, syllables.reverse() and the return.
Finish ==
    /\ pc = "scan"
    /\ k = 0
    /\ IF AllSlicesOk(FinalPush)
       THEN /\ syllables' = Reverse(syllables \o FinalPush)
            /\ pc' = "done"
       ELSE /\ pc' = "panicked"
            /\ UNCHANGED syllables
    /\ UNCHANGED <<word, graphemes, k, state, end, last, prev, prev_prev, branch>>

Next ==
    \/ ScanUnrecognised
    \/ ScanEnding
    \/ ScanStarting
    \/ ScanRestarting
    \/ Finish

---------------------------------------------------------------------------
(* Inputs.  Each specification runs syllables() on every word of a bounded *)
(* family.                                                                 *)

\* All sequences over A of length at most n.
SeqsUpTo(A, n) == UNION {[1..m -> A] : m \in 0..n}

upsilon_dialytika == 971
iota_perispomeni == 8150
latin_a == 97
combining_grave == 768
combining_acute == 769
combining_psili == 787
combining_dasia == 788

\* Mixed words: vowels, a diaeresis vowel, the consonants of the rho-tau-sigma
\* rule, a Latin letter and a combining acute (which decomposes alpha and iota
\* with acute, and makes unrecognised clusters of everything else).
MaxLen == 4
Alphabet ==
    {alpha, iota, upsilon_dialytika, sigma, tau, rho, latin_a, combining_acute}
Init == InitWith(SeqsUpTo(Alphabet, MaxLen))
Spec == Init /\ [][Next]_vars

\* Vowel words: the seven vowels, a circumflex vowel, a consonant, a Latin letter.
MaxLenVowels == 4
VowelAlphabet ==
    {alpha, epsilon, eta, iota, omicron, upsilon, omega, iota_perispomeni,
     sigma, latin_a}
InitVowels == InitWith(SeqsUpTo(VowelAlphabet, MaxLenVowels))
SpecVowels == InitVowels /\ [][Next]_vars

\* Consonant words: every ordered pair of consonants between a left and a
\* right context of up to MaxContext letters; and longer words over the
\* letters of the clusters of three.
MaxContext == 1
MaxLenCluster == 5
Consonants ==
    {beta, gamma, delta, zeta, theta, kappa, lambda, mu, nu, xi, pi, rho,
     sigma, tau, phi, chi, psi}
ContextAlphabet == {alpha, sigma, latin_a}
ClusterAlphabet == {sigma, tau, rho, kappa, alpha}
ConsonantWords ==
    {p \o <<c1, c2>> \o s :
        c1 \in Consonants, c2 \in Consonants,
        p \in SeqsUpTo(ContextAlphabet, MaxContext),
        s \in SeqsUpTo(ContextAlphabet, MaxContext)}
InitConsonants ==
    InitWith(ConsonantWords \cup SeqsUpTo(ClusterAlphabet, MaxLenCluster))
SpecConsonants == InitConsonants /\ [][Next]_vars

\* Words over the letters of the rho-tau-sigma rule.
MaxLenRTS == 6
RTSAlphabet == {sigma, tau, rho, alpha, latin_a}
InitRTS == InitWith(SeqsUpTo(RTSAlphabet, MaxLenRTS))
SpecRTS == InitRTS /\ [][Next]_vars

\* Classifier inputs: every scalar value of the Greek and Greek Extended
\* blocks, and every vowel letter followed by up to MaxMarks combining marks;
\* each is scanned at the end of a word, before a vowel and before a
\* consonant and a vowel.
MaxMarks == 2
GreekBlocks == (880..1023) \cup (7936..8191)
VowelLetters ==
    {alpha, epsilon, eta, iota, omicron, upsilon, omega,
     alpha - 32, epsilon - 32, eta - 32, iota - 32, omicron - 32, upsilon - 32,
     omega - 32}
\* The marks of the classifier's patterns, and two it has no pattern for:
\* U+0308 (diaeresis) and U+0342 (perispomeni, the circumflex).
CombiningMarks ==
    {combining_grave, combining_acute, combining_psili, combining_dasia, 776, 834}
ClassifierGraphemes ==
    {<<cp>> : cp \in GreekBlocks}
      \cup {<<v>> \o m : v \in VowelLetters, m \in SeqsUpTo(CombiningMarks, MaxMarks)}
ClassifierWords ==
    {g \o s : g \in ClassifierGraphemes, s \in {<<>>, <<alpha>>, <<sigma, alpha>>}}
InitClassifier == InitWith(ClassifierWords)
SpecClassifier == InitClassifier /\ [][Next]_vars

---------------------------------------------------------------------------
(* Vocabulary of the properties.                                           *)

Returned == pc = "done"

\* The descriptor of every grapheme of the word, in text order.
Letters == [m \in DOMAIN graphemes |-> categorise(graphemes[m].g)]

\* Byte offset just after the m-th grapheme.
GraphemeEnd(m) == graphemes[m].i + StrLen(graphemes[m].g)

\* A descriptor of a recognised consonant.
IsConsonant(d) == d.c # NONE /\ ~d.vowel

\* The grapheme the latest iteration handled.
Current == k + 1

RECURSIVE Flatten(_)
Flatten(ss) == IF ss = <<>> THEN <<>> ELSE ss[1] \o Flatten(Tail(ss))

\* The returned slices joined in order.
Joined ==
    Flatten([n \in DOMAIN syllables |->
                Slice(word, syllables[n].lo, syllables[n].hi)])

\* A syllable starts or ends at byte offset b.
BoundaryAt(b) ==
    \E n \in DOMAIN syllables : syllables[n].lo = b \/ syllables[n].hi = b

\* Graphemes m and m + 1 lie in one returned syllable.
SameSyllable(m) ==
    \E n \in DOMAIN syllables :
        syllables[n].lo <= graphemes[m].i /\ GraphemeEnd(m + 1) <= syllables[n].hi

---------------------------------------------------------------------------
\* C1: for every word, joining the slices syllables() returns, in order,
\* gives back exactly the word.
C1_ConcatenationIdentity ==
    Returned => Joined = word

\* A word with a two-scalar grapheme is returned as three or more non-empty
\* syllables.
C1_Witness ==
    /\ Returned
    /\ Len(syllables) >= 3
    /\ \A n \in DOMAIN syllables : syllables[n].lo < syllables[n].hi
    /\ \E m \in DOMAIN graphemes : Len(graphemes[m].g) >= 2

\* C2: every returned slice is non-empty, and the slices are contiguous spans
\* that start at 0, follow one another and end at the end of the word.
C2_NonEmptyPartition ==
    Returned =>
        /\ \A n \in DOMAIN syllables : syllables[n].lo < syllables[n].hi
        /\ \A n \in DOMAIN syllables :
              /\ n = 1 => syllables[n].lo = 0
              /\ n < Len(syllables) => syllables[n].hi = syllables[n + 1].lo
              /\ n = Len(syllables) => syllables[n].hi = StrLen(word)
        /\ word # <<>> => syllables # <<>>

\* C3: syllables() never panics: in the loop i <= last <= end <= len(word),
\* no slice is inverted or out of range, and the empty word returns the
\* empty sequence.
C3_Total ==
    /\ pc # "panicked"
    /\ pc = "scan" =>
          /\ last <= end
          /\ end <= StrLen(word)
          /\ k > 0 => Element.i <= last
    /\ (Returned /\ word = <<>>) => syllables = <<>>

\* A scan that took the degenerate slice word[last..end] with last = end,
\* in a word with an unrecognised grapheme, returns.
C3_Witness ==
    /\ Returned
    /\ \E n \in DOMAIN syllables : syllables[n].lo = syllables[n].hi
    /\ \E m \in DOMAIN graphemes : Letters[m].c = NONE

\* C4: an unrecognised grapheme leaves the scanner in Ending and is returned
\* as a syllable of its own; a word of unrecognised graphemes only is
\* returned as one syllable per grapheme.
C4_UnrecognisedIsolated ==
    /\ branch = "unrecognised" => state = "Ending"
    /\ Returned =>
          LET L == Letters
          IN  /\ \A m \in DOMAIN graphemes :
                    L[m].c = NONE =>
                        \E n \in DOMAIN syllables :
                            syllables[n] = Span(graphemes[m].i, GraphemeEnd(m))
              /\ (\A m \in DOMAIN graphemes : L[m].c = NONE) =>
                    /\ Len(syllables) = Len(graphemes)
                    /\ \A m \in DOMAIN graphemes :
                          syllables[m] = Span(graphemes[m].i, GraphemeEnd(m))

\* An unrecognised two-scalar grapheme between two recognised ones, met with
\* a pending span.
C4_Witness ==
    /\ Returned
    /\ \E m \in DOMAIN graphemes :
          /\ 1 < m /\ m < Len(graphemes)
          /\ Letters[m].c = NONE
          /\ Len(graphemes[m].g) >= 2
          /\ Letters[m - 1].c # NONE
          /\ Letters[m + 1].c # NONE

\* C6: wherever a vowel with diaeresis directly follows another vowel, a
\* syllable boundary lies between the two.
C6_DiaeresisSeparates ==
    Returned =>
        LET L == Letters
        IN  \A m \in DOMAIN graphemes :
                (m < Len(graphemes) /\ L[m].vowel /\ L[m + 1].diaeresis)
                    => BoundaryAt(graphemes[m + 1].i)

\* C8: the rho-tau-sigma arm is taken only at a sigma whose two right
\* neighbours in the word are tau and then rho.
C8_RTSOnlyOnLiteralPattern ==
    branch = "restarting_rts" =>
        /\ Current + 2 <= Len(graphemes)
        /\ Letters[Current].c = sigma
        /\ Letters[Current + 1].c = tau
        /\ Letters[Current + 2].c = rho

\* C9: no boundary between two adjacent consonants that joinable_consonant
\* accepts as (left, right).
C9_JoinableNeverSplit ==
    Returned =>
        LET L == Letters
        IN  \A m \in DOMAIN graphemes :
                (/\ m < Len(graphemes)
                 /\ IsConsonant(L[m])
                 /\ IsConsonant(L[m + 1])
                 /\ joinable_consonant(L[m].c, L[m + 1].c))
                    => ~BoundaryAt(graphemes[m + 1].i)

\* A consonant, then sigma-tau-rho: the rho-tau-sigma cut falls before the
\* sigma, between two consonants, and sigma-tau-rho stays whole.
C9_Witness ==
    /\ Returned
    /\ \E m \in DOMAIN graphemes :
          /\ 1 < m
          /\ m + 2 <= Len(graphemes)
          /\ IsConsonant(Letters[m - 1])
          /\ Letters[m].c = sigma
          /\ Letters[m + 1].c = tau
          /\ Letters[m + 2].c = rho
          /\ BoundaryAt(graphemes[m].i)

\* The eight ordered pairs (left vowel, right vowel) of the claim.
DiphthongPairs ==
    { <<alpha, iota>>, <<epsilon, iota>>, <<omicron, iota>>, <<upsilon, iota>>,
      <<alpha, upsilon>>, <<epsilon, upsilon>>, <<omicron, upsilon>>,
      <<eta, upsilon>> }

---------------------------------------------------------------------------
(* Unicode character data, for the properties of the classifier: the full  *)
(* canonical decomposition (NFD) of every scalar value of the Greek and    *)
(* Greek Extended blocks that has one, as <<scalar value, decomposition>>. *)
UnicodeDecomposition ==
    { <<884, <<697>>>>, <<894, <<59>>>>, <<901, <<168, 769>>>>, <<902, <<913, 769>>>>,
      <<903, <<183>>>>, <<904, <<917, 769>>>>, <<905, <<919, 769>>>>,
      <<906, <<921, 769>>>>, <<908, <<927, 769>>>>, <<910, <<933, 769>>>>,
      <<911, <<937, 769>>>>, <<912, <<953, 776, 769>>>>, <<938, <<921, 776>>>>,
      <<939, <<933, 776>>>>, <<940, <<945, 769>>>>, <<941, <<949, 769>>>>,
      <<942, <<951, 769>>>>, <<943, <<953, 769>>>>, <<944, <<965, 776, 769>>>>,
      <<970, <<953, 776>>>>, <<971, <<965, 776>>>>, <<972, <<959, 769>>>>,
      <<973, <<965, 769>>>>, <<974, <<969, 769>>>>, <<979, <<978, 769>>>>,
      <<980, <<978, 776>>>>, <<7936, <<945, 787>>>>, <<7937, <<945, 788>>>>,
      <<7938, <<945, 787, 768>>>>, <<7939, <<945, 788, 768>>>>,
      <<7940, <<945, 787, 769>>>>, <<7941, <<945, 788, 769>>>>,
      <<7942, <<945, 787, 834>>>>, <<7943, <<945, 788, 834>>>>, <<7944, <<913, 787>>>>,
      <<7945, <<913, 788>>>>, <<7946, <<913, 787, 768>>>>, <<7947, <<913, 788, 768>>>>,
      <<7948, <<913, 787, 769>>>>, <<7949, <<913, 788, 769>>>>,
      <<7950, <<913, 787, 834>>>>, <<7951, <<913, 788, 834>>>>, <<7952, <<949, 787>>>>,
      <<7953, <<949, 788>>>>, <<7954, <<949, 787, 768>>>>, <<7955, <<949, 788, 768>>>>,
      <<7956, <<949, 787, 769>>>>, <<7957, <<949, 788, 769>>>>, <<7960, <<917, 787>>>>,
      <<7961, <<917, 788>>>>, <<7962, <<917, 787, 768>>>>, <<7963, <<917, 788, 768>>>>,
      <<7964, <<917, 787, 769>>>>, <<7965, <<917, 788, 769>>>>, <<7968, <<951, 787>>>>,
      <<7969, <<951, 788>>>>, <<7970, <<951, 787, 768>>>>, <<7971, <<951, 788, 768>>>>,
      <<7972, <<951, 787, 769>>>>, <<7973, <<951, 788, 769>>>>,
      <<7974, <<951, 787, 834>>>>, <<7975, <<951, 788, 834>>>>, <<7976, <<919, 787>>>>,
      <<7977, <<919, 788>>>>, <<7978, <<919, 787, 768>>>>, <<7979, <<919, 788, 768>>>>,
      <<7980, <<919, 787, 769>>>>, <<7981, <<919, 788, 769>>>>,
      <<7982, <<919, 787, 834>>>>, <<7983, <<919, 788, 834>>>>, <<7984, <<953, 787>>>>,
      <<7985, <<953, 788>>>>, <<7986, <<953, 787, 768>>>>, <<7987, <<953, 788, 768>>>>,
      <<7988, <<953, 787, 769>>>>, <<7989, <<953, 788, 769>>>>,
      <<7990, <<953, 787, 834>>>>, <<7991, <<953, 788, 834>>>>, <<7992, <<921, 787>>>>,
      <<7993, <<921, 788>>>>, <<7994, <<921, 787, 768>>>>, <<7995, <<921, 788, 768>>>>,
      <<7996, <<921, 787, 769>>>>, <<7997, <<921, 788, 769>>>>,
      <<7998, <<921, 787, 834>>>>, <<7999, <<921, 788, 834>>>>, <<8000, <<959, 787>>>>,
      <<8001, <<959, 788>>>>, <<8002, <<959, 787, 768>>>>, <<8003, <<959, 788, 768>>>>,
      <<8004, <<959, 787, 769>>>>, <<8005, <<959, 788, 769>>>>, <<8008, <<927, 787>>>>,
      <<8009, <<927, 788>>>>, <<8010, <<927, 787, 768>>>>, <<8011, <<927, 788, 768>>>>,
      <<8012, <<927, 787, 769>>>>, <<8013, <<927, 788, 769>>>>, <<8016, <<965, 787>>>>,
      <<8017, <<965, 788>>>>, <<8018, <<965, 787, 768>>>>, <<8019, <<965, 788, 768>>>>,
      <<8020, <<965, 787, 769>>>>, <<8021, <<965, 788, 769>>>>,
      <<8022, <<965, 787, 834>>>>, <<8023, <<965, 788, 834>>>>, <<8025, <<933, 788>>>>,
      <<8027, <<933, 788, 768>>>>, <<8029, <<933, 788, 769>>>>,
      <<8031, <<933, 788, 834>>>>, <<8032, <<969, 787>>>>, <<8033, <<969, 788>>>>,
      <<8034, <<969, 787, 768>>>>, <<8035, <<969, 788, 768>>>>,
      <<8036, <<969, 787, 769>>>>, <<8037, <<969, 788, 769>>>>,
      <<8038, <<969, 787, 834>>>>, <<8039, <<969, 788, 834>>>>, <<8040, <<937, 787>>>>,
      <<8041, <<937, 788>>>>, <<8042, <<937, 787, 768>>>>, <<8043, <<937, 788, 768>>>>,
      <<8044, <<937, 787, 769>>>>, <<8045, <<937, 788, 769>>>>,
      <<8046, <<937, 787, 834>>>>, <<8047, <<937, 788, 834>>>>, <<8048, <<945, 768>>>>,
      <<8049, <<945, 769>>>>, <<8050, <<949, 768>>>>, <<8051, <<949, 769>>>>,
      <<8052, <<951, 768>>>>, <<8053, <<951, 769>>>>, <<8054, <<953, 768>>>>,
      <<8055, <<953, 769>>>>, <<8056, <<959, 768>>>>, <<8057, <<959, 769>>>>,
      <<8058, <<965, 768>>>>, <<8059, <<965, 769>>>>, <<8060, <<969, 768>>>>,
      <<8061, <<969, 769>>>>, <<8064, <<945, 787, 837>>>>, <<8065, <<945, 788, 837>>>>,
      <<8066, <<945, 787, 768, 837>>>>, <<8067, <<945, 788, 768, 837>>>>,
      <<8068, <<945, 787, 769, 837>>>>, <<8069, <<945, 788, 769, 837>>>>,
      <<8070, <<945, 787, 834, 837>>>>, <<8071, <<945, 788, 834, 837>>>>,
      <<8072, <<913, 787, 837>>>>, <<8073, <<913, 788, 837>>>>,
      <<8074, <<913, 787, 768, 837>>>>, <<8075, <<913, 788, 768, 837>>>>,
      <<8076, <<913, 787, 769, 837>>>>, <<8077, <<913, 788, 769, 837>>>>,
      <<8078, <<913, 787, 834, 837>>>>, <<8079, <<913, 788, 834, 837>>>>,
      <<8080, <<951, 787, 837>>>>, <<8081, <<951, 788, 837>>>>,
      <<8082, <<951, 787, 768, 837>>>>, <<8083, <<951, 788, 768, 837>>>>,
      <<8084, <<951, 787, 769, 837>>>>, <<8085, <<951, 788, 769, 837>>>>,
      <<8086, <<951, 787, 834, 837>>>>, <<8087, <<951, 788, 834, 837>>>>,
      <<8088, <<919, 787, 837>>>>, <<8089, <<919, 788, 837>>>>,
      <<8090, <<919, 787, 768, 837>>>>, <<8091, <<919, 788, 768, 837>>>>,
      <<8092, <<919, 787, 769, 837>>>>, <<8093, <<919, 788, 769, 837>>>>,
      <<8094, <<919, 787, 834, 837>>>>, <<8095, <<919, 788, 834, 837>>>>,
      <<8096, <<969, 787, 837>>>>, <<8097, <<969, 788, 837>>>>,
      <<8098, <<969, 787, 768, 837>>>>, <<8099, <<969, 788, 768, 837>>>>,
      <<8100, <<969, 787, 769, 837>>>>, <<8101, <<969, 788, 769, 837>>>>,
      <<8102, <<969, 787, 834, 837>>>>, <<8103, <<969, 788, 834, 837>>>>,
      <<8104, <<937, 787, 837>>>>, <<8105, <<937, 788, 837>>>>,
      <<8106, <<937, 787, 768, 837>>>>, <<8107, <<937, 788, 768, 837>>>>,
      <<8108, <<937, 787, 769, 837>>>>, <<8109, <<937, 788, 769, 837>>>>,
      <<8110, <<937, 787, 834, 837>>>>, <<8111, <<937, 788, 834, 837>>>>,
      <<8112, <<945, 774>>>>, <<8113, <<945, 772>>>>, <<8114, <<945, 768, 837>>>>,
      <<8115, <<945, 837>>>>, <<8116, <<945, 769, 837>>>>, <<8118, <<945, 834>>>>,
      <<8119, <<945, 834, 837>>>>, <<8120, <<913, 774>>>>, <<8121, <<913, 772>>>>,
      <<8122, <<913, 768>>>>, <<8123, <<913, 769>>>>, <<8124, <<913, 837>>>>,
      <<8126, <<953>>>>, <<8129, <<168, 834>>>>, <<8130, <<951, 768, 837>>>>,
      <<8131, <<951, 837>>>>, <<8132, <<951, 769, 837>>>>, <<8134, <<951, 834>>>>,
      <<8135, <<951, 834, 837>>>>, <<8136, <<917, 768>>>>, <<8137, <<917, 769>>>>,
      <<8138, <<919, 768>>>>, <<8139, <<919, 769>>>>, <<8140, <<919, 837>>>>,
      <<8141, <<8127, 768>>>>, <<8142, <<8127, 769>>>>, <<8143, <<8127, 834>>>>,
      <<8144, <<953, 774>>>>, <<8145, <<953, 772>>>>, <<8146, <<953, 776, 768>>>>,
      <<8147, <<953, 776, 769>>>>, <<8150, <<953, 834>>>>, <<8151, <<953, 776, 834>>>>,
      <<8152, <<921, 774>>>>, <<8153, <<921, 772>>>>, <<8154, <<921, 768>>>>,
      <<8155, <<921, 769>>>>, <<8157, <<8190, 768>>>>, <<8158, <<8190, 769>>>>,
      <<8159, <<8190, 834>>>>, <<8160, <<965, 774>>>>, <<8161, <<965, 772>>>>,
      <<8162, <<965, 776, 768>>>>, <<8163, <<965, 776, 769>>>>, <<8164, <<961, 787>>>>,
      <<8165, <<961, 788>>>>, <<8166, <<965, 834>>>>, <<8167, <<965, 776, 834>>>>,
      <<8168, <<933, 774>>>>, <<8169, <<933, 772>>>>, <<8170, <<933, 768>>>>,
      <<8171, <<933, 769>>>>, <<8172, <<929, 788>>>>, <<8173, <<168, 768>>>>,
      <<8174, <<168, 769>>>>, <<8175, <<96>>>>, <<8178, <<969, 768, 837>>>>,
      <<8179, <<969, 837>>>>, <<8180, <<969, 769, 837>>>>, <<8182, <<969, 834>>>>,
      <<8183, <<969, 834, 837>>>>, <<8184, <<927, 768>>>>, <<8185, <<927, 769>>>>,
      <<8186, <<937, 768>>>>, <<8187, <<937, 769>>>>, <<8188, <<937, 837>>>>,
      <<8189, <<180>>>> }

\* NFD of one scalar value.
Decomposed(cp) ==
    IF \E p \in UnicodeDecomposition : p[1] = cp
    THEN (CHOOSE p \in UnicodeDecomposition : p[1] = cp)[2]
    ELSE <<cp>>

\* The lowercase form of a Greek capital; final sigma is a form of sigma.
Lowercase(cp) ==
    IF cp \in 913..937 THEN cp + 32 ELSE IF cp = 962 THEN sigma ELSE cp

\* The unaccented lowercase base letter a grapheme stands for.
BaseLetter(g) == Lowercase(Decomposed(g[1])[1])

\* The 24 letters.
GreekLetters == (alpha..omega) \ {962}

\* The marks of the claim: grave, acute, circumflex; smooth, rough.
AccentMarks == {combining_grave, combining_acute, 834}
BreathingMarks == {combining_psili, combining_dasia}

\* The other orders of the marks of a decomposition <<base, m1, m2>>.
MarkOrders(d) ==
    IF Len(d) = 3 THEN {d, <<d[1], d[3], d[2]>>} ELSE {d}

\* g is one precomposed scalar value: a vowel with at most one accent and at
\* most one breathing, and with at least one of them.
IsPrecomposedVowel(g) ==
    /\ Len(g) = 1
    /\ LET d == Decomposed(g[1])
           marks == {d[n] : n \in 2..Len(d)}
       IN  /\ Len(d) >= 2
           /\ d[1] \in VowelLetters
           /\ marks \subseteq (AccentMarks \cup BreathingMarks)
           /\ Cardinality(marks \cap AccentMarks) <= 1
           /\ Cardinality(marks \cap BreathingMarks) <= 1
           /\ Cardinality(marks) = Len(d) - 1

\* The graphemes the scan has classified so far.
Classified == {m \in DOMAIN graphemes : m > k}

\* C5: a precomposed vowel and each of its decomposed forms (the base letter
\* followed by the marks, in either order) get the same descriptor.
C5_EncodingEquivalence ==
    \A m \in Classified :
        IsPrecomposedVowel(graphemes[m].g) =>
            \A d \in MarkOrders(Decomposed(graphemes[m].g[1])) :
                categorise(d) = categorise(graphemes[m].g)

\* C7: the canonical letter of a recognised grapheme is its unaccented
\* lowercase base letter, one of the 24 letters.
C7_CanonicalIsBaseLetter ==
    \A m \in Classified :
        LET c == categorise(graphemes[m].g).c
        IN  c # NONE =>
                /\ c \in GreekLetters
                /\ c = BaseLetter(graphemes[m].g)
===========================================================================
